---- MODULE Spec2Model ----
(***************************************************************************)
(* State-machine model of game.js ("One More Step"): grid movement gated   *)
(* by wall collision, moving hazards with per-frame energy penalty, the    *)
(* confetti particle burst, and the title/playing/won/lost state machine.  *)
(*                                                                         *)
(* Units.  Player, wall and goal coordinates are canvas pixels.  Hazard 2  *)
(* moves 1.5 px per frame, so hazard x positions and speeds are kept in    *)
(* half pixels (x2 = 2*x); every comparison against them doubles the other *)
(* side.  Particle life is kept in units of the decay step (life 1 = 50    *)
(* units, decay 0.02 = 1 unit); 1 - 50*0.02 evaluated in IEEE doubles is   *)
(* -6.2e-16 <= 0, so the unit count and the float agree on the frame in    *)
(* which a particle is removed.                                            *)
(***************************************************************************)
EXTENDS Integers, Sequences, FiniteSets, TLC

VARIABLES
    gameState,    \* 'title' | 'playing' | 'won' | 'lost'
    player,       \* [x, y, energy, steps]
    hazards,      \* <<[x2, direction]>> for the three hazards
    particles,    \* sequence of particle lives (decay units)
    elapsedTime,  \* whole seconds shown by the timer
    hidden,       \* screen name -> has the 'hidden' class
    fired,        \* [win, lose, hit]: win/lose/hit triggers run since the last reset
    lastOp,       \* history: outcome of the last handler that ran
    ticks,        \* history: playing frames since the last reset
    contact,      \* history: [k, base] current run of hazard-contact frames
    burstTicks    \* history: won frames that began with live particles

vars == <<gameState, player, hazards, particles, elapsedTime, hidden, fired,
          lastOp, ticks, contact, burstTicks>>

----------------------------------------------------------------------------
(* Bounds of the exploration *)

\* playing frames explored per round in Spec
MaxTicks == 2
\* largest timer value explored
MaxElapsed == 1
\* playing frames explored per round in SpecHazard: by frame 1011 each
\* hazard has come back to a (position, direction) it held before (periods
\* of 644, 830 and 442 frames), so its later motion repeats
MaxTicksHazard == 1020
\* successful moves explored per round in SpecHazard
MaxStepsHazard == 2

----------------------------------------------------------------------------
(* Program constants *)

PlayerSize == 30
PlayerSpeed == 40
SpawnX == 50
SpawnY == 550
InitEnergy == 100
HazardPenalty == 10
ConfettiCount == 50
\* life: 1 with decay 0.02 per frame
ParticleLife == 50
GoalX == 750
GoalY == 50
GoalSize == 40
\* hazard bounce margins
LeftMargin == 30
RightMargin == 770

walls ==
    << [x |-> 0,   y |-> 0,   width |-> 800, height |-> 20],
       [x |-> 0,   y |-> 580, width |-> 800, height |-> 20],
       [x |-> 0,   y |-> 0,   width |-> 20,  height |-> 600],
       [x |-> 780, y |-> 0,   width |-> 20,  height |-> 600],
       [x |-> 200, y |-> 100, width |-> 20,  height |-> 300],
       [x |-> 400, y |-> 200, width |-> 20,  height |-> 380],
       [x |-> 600, y |-> 20,  width |-> 20,  height |-> 400] >>

\* static fields of the hazards; x2, width2 and speedX2 are in half pixels
hazardDefs ==
    << [x2 |-> 200,  y |-> 200, width2 |-> 200, height |-> 20, speedX2 |-> 4, direction |-> 1],
       [x2 |-> 600,  y |-> 400, width2 |-> 240, height |-> 20, speedX2 |-> 3, direction |-> -1],
       [x2 |-> 1000, y |-> 300, width2 |-> 160, height |-> 20, speedX2 |-> 6, direction |-> 1] >>

HazardIds == 1..3

Dirs == { <<0, -1>>, <<0, 1>>, <<-1, 0>>, <<1, 0>> }

Screens == {"titleScreen", "howToPlayScreen", "gameContainer", "winScreen", "loseScreen"}

----------------------------------------------------------------------------
(* Pure functions *)

\* variant of checkWallCollision with <= and >=: touching edges collide
checkWallCollisionTouching(newX, newY) ==
    \E i \in 1..Len(walls) :
        /\ newX <= walls[i].x + walls[i].width
        /\ newX + PlayerSize >= walls[i].x
        /\ newY <= walls[i].y + walls[i].height
        /\ newY + PlayerSize >= walls[i].y

\* variant of checkWallCollision that also treats the hazards as walls
checkWallCollisionOrHazard(newX, newY) ==
    \/ \E i \in 1..Len(walls) :
        /\ newX < walls[i].x + walls[i].width
        /\ newX + PlayerSize > walls[i].x
        /\ newY < walls[i].y + walls[i].height
        /\ newY + PlayerSize > walls[i].y
    \/ \E i \in HazardIds :
        /\ 2 * newX < hazards[i].x2 + hazardDefs[i].width2
        /\ 2 * (newX + PlayerSize) > hazards[i].x2
        /\ newY < hazardDefs[i].y + hazardDefs[i].height
        /\ newY + PlayerSize > hazardDefs[i].y

\* variant of checkWallCollision that tests the candidate's top-left corner
\* only (player.size left out of the two lower-bound tests)
checkWallCollisionCorner(newX, newY) ==
    \E i \in 1..Len(walls) :
        /\ newX < walls[i].x + walls[i].width
        /\ newX > walls[i].x
        /\ newY < walls[i].y + walls[i].height
        /\ newY > walls[i].y

\* checkWallCollision(newX, newY)
checkWallCollision(newX, newY) ==
    \E i \in 1..Len(walls) :
        /\ newX < walls[i].x + walls[i].width
        /\ newX + PlayerSize > walls[i].x
        /\ newY < walls[i].y + walls[i].height
        /\ newY + PlayerSize > walls[i].y

\* variant of checkHazardCollision without the two tests on y
checkHazardCollisionNoY(p, hz) ==
    \E i \in HazardIds :
        /\ 2 * p.x < hz[i].x2 + hazardDefs[i].width2
        /\ 2 * (p.x + PlayerSize) > hz[i].x2

\* edge-triggered variant of checkHazardCollision: a contact counts only in
\* the first frame of an overlap
checkHazardCollisionEdge(p, hz) ==
    /\ contact.k = 0
    /\ \E i \in HazardIds :
        /\ 2 * p.x < hz[i].x2 + hazardDefs[i].width2
        /\ 2 * (p.x + PlayerSize) > hz[i].x2
        /\ p.y < hazardDefs[i].y + hazardDefs[i].height
        /\ p.y + PlayerSize > hazardDefs[i].y

\* checkHazardCollision(), on player p and hazard list hz
checkHazardCollision(p, hz) ==
    \E i \in HazardIds :
        /\ 2 * p.x < hz[i].x2 + hazardDefs[i].width2
        /\ 2 * (p.x + PlayerSize) > hz[i].x2
        /\ p.y < hazardDefs[i].y + hazardDefs[i].height
        /\ p.y + PlayerSize > hazardDefs[i].y

\* variant of checkGoalReached that measures to the goal's corner (goal.x,
\* goal.y) instead of its centre
checkGoalReachedCorner(p) ==
    LET dx2 == (2 * p.x + PlayerSize) - 2 * GoalX
        dy2 == (2 * p.y + PlayerSize) - 2 * GoalY
    IN  dx2 * dx2 + dy2 * dy2 < (PlayerSize + GoalSize) * (PlayerSize + GoalSize)

\* checkGoalReached(): sqrt(dx^2 + dy^2) < 35, with doubled centre offsets
\* and a doubled radius so that size/2 stays integral
checkGoalReached(p) ==
    LET dx2 == (2 * p.x + PlayerSize) - (2 * GoalX + GoalSize)
        dy2 == (2 * p.y + PlayerSize) - (2 * GoalY + GoalSize)
    IN  dx2 * dx2 + dy2 * dy2 < (PlayerSize + GoalSize) * (PlayerSize + GoalSize)

\* variant of updateHazard that bounces off the left margin only
updateHazardLeftOnly(i, h) ==
    LET nx == h.x2 + hazardDefs[i].speedX2 * h.direction
    IN  [x2 |-> nx,
         direction |-> IF nx < 2 * LeftMargin THEN -1 * h.direction ELSE h.direction]

\* one hazard's step in updateHazards
updateHazard(i, h) ==
    LET nx == h.x2 + hazardDefs[i].speedX2 * h.direction
    IN  [x2 |-> nx,
         direction |-> IF nx < 2 * LeftMargin \/ nx + hazardDefs[i].width2 > 2 * RightMargin
                       THEN -1 * h.direction ELSE h.direction]

updateHazards(hz) == [i \in HazardIds |-> updateHazard(i, hz[i])]

\* variant of createConfetti whose loop runs while i <= 50
createConfettiOneMore(ps) == ps \o [i \in 1..(ConfettiCount + 1) |-> ParticleLife]

\* createConfetti(): 50 particles of life 1 pushed onto the list
createConfetti(ps) == ps \o [i \in 1..ConfettiCount |-> ParticleLife]

\* variant of updateParticles that moves the particles but forgets the decay
updateParticlesNoDecay(ps) == ps

\* variant of updateParticles that removes a particle only when life < 0
updateParticlesLate(ps) ==
    LET aged == [i \in 1..Len(ps) |-> ps[i] - 1]
        alive(l) == l >= 0
    IN  SelectSeq(aged, alive)

\* updateParticles(): every particle ages by one decay step and is spliced
\* out when its life is <= 0
updateParticles(ps) ==
    LET aged == [i \in 1..Len(ps) |-> ps[i] - 1]
        alive(l) == l > 0
    IN  SelectSeq(aged, alive)

initialHazards == [i \in HazardIds |-> [x2 |-> hazardDefs[i].x2, direction |-> hazardDefs[i].direction]]

\* variant of applyMove that charges no energy for the move onto the goal
applyMoveFreeGoal(p, newX, newY) ==
    LET q == [x |-> newX, y |-> newY, energy |-> p.energy, steps |-> p.steps + 1]
    IN  [q EXCEPT !.energy = IF checkGoalReached(q) THEN p.energy ELSE p.energy - 1]

\* movePlayer, lines 206-209: the player after a successful move
applyMove(p, newX, newY) ==
    [x |-> newX, y |-> newY, energy |-> p.energy - 1, steps |-> p.steps + 1]

\* variant of moveOutcome whose energy check is energy < 0
moveOutcomeStrict(p) ==
    LET afterEnergy == IF p.energy < 0 THEN "lost" ELSE "playing"
    IN  IF checkGoalReached(p) THEN "won" ELSE afterEnergy

\* movePlayer, lines 213-226: the energy check runs first and the goal check
\* second, so the goal check has the last word on gameState
moveOutcome(p) ==
    LET afterEnergy == IF p.energy <= 0 THEN "lost" ELSE "playing"
    IN  IF checkGoalReached(p) THEN "won" ELSE afterEnergy

\* variant of hitEnergy with a penalty of 5
hitEnergyFive(energy) ==
    LET e == energy - 5
    IN  IF e <= 0 THEN 0 ELSE e

\* variant of hitEnergy without the clamp to 0
hitEnergyNoClamp(energy) == energy - HazardPenalty

\* gameLoop, lines 419-424: energy after a hazard hit
hitEnergy(energy) ==
    LET e == energy - HazardPenalty
    IN  IF e <= 0 THEN 0 ELSE e

\* rectangle overlap with strict comparisons (touching edges do not overlap);
\* used by the history variables and the properties, not by the operations
Intersects(ax, ay, aw, ah, bx, by, bw, bh) ==
    /\ ax < bx + bw
    /\ bx < ax + aw
    /\ ay < by + bh
    /\ by < ay + ah

\* the player box at (px, py) overlaps hazard i of hazard list hz (half pixels)
TouchesHazard(px, py, hz, i) ==
    Intersects(2 * px, 2 * py, 2 * PlayerSize, 2 * PlayerSize,
               hz[i].x2, 2 * hazardDefs[i].y, hazardDefs[i].width2, 2 * hazardDefs[i].height)

TouchesAnyHazard(px, py, hz) == \E i \in HazardIds : TouchesHazard(px, py, hz, i)

noContact == [k |-> 0, base |-> 0]

Op(name) == [op |-> name, from |-> gameState]

----------------------------------------------------------------------------
(* Initial state: module-level declarations; the title screen is the one   *)
(* screen shown when the page loads                                        *)

Init ==
    /\ gameState = "title"
    /\ player = [x |-> SpawnX, y |-> SpawnY, energy |-> InitEnergy, steps |-> 0]
    /\ hazards = initialHazards
    /\ particles = << >>
    /\ elapsedTime = 0
    /\ hidden = [s \in Screens |-> s # "titleScreen"]
    /\ fired = [win |-> 0, lose |-> 0, hit |-> 0]
    /\ lastOp = [op |-> "init", from |-> "title"]
    /\ ticks = 0
    /\ contact = noContact
    /\ burstTicks = 0

----------------------------------------------------------------------------
(* Operations *)

\* variant of resetGame that resets hazards[1] twice and hazards[2] never
resetGameSkipThird ==
    /\ player' = [x |-> SpawnX, y |-> SpawnY, energy |-> InitEnergy, steps |-> 0]
    /\ hazards' = [initialHazards EXCEPT ![3] = hazards[3]]
    /\ particles' = << >>
    /\ elapsedTime' = 0
    /\ fired' = [win |-> 0, lose |-> 0, hit |-> 0]
    /\ ticks' = 0
    /\ contact' = noContact
    /\ burstTicks' = 0

\* resetGame()
resetGame ==
    /\ player' = [x |-> SpawnX, y |-> SpawnY, energy |-> InitEnergy, steps |-> 0]
    /\ hazards' = initialHazards
    /\ particles' = << >>
    /\ elapsedTime' = 0
    /\ fired' = [win |-> 0, lose |-> 0, hit |-> 0]
    /\ ticks' = 0
    /\ contact' = noContact
    /\ burstTicks' = 0

\* startGame(): click on playBtn (title screen), playAgainBtn (win screen)
\* or retryBtn (lose screen); a button is clickable while its screen is shown
startGame ==
    /\ ~(hidden["titleScreen"] /\ hidden["winScreen"] /\ hidden["loseScreen"])
    /\ hidden' = [s \in Screens |-> s # "gameContainer"]
    /\ resetGame
    /\ gameState' = "playing"
    /\ lastOp' = Op("start")

\* showHowToPlayScreen(): click on howToPlayBtn of the title screen
showHowToPlayScreen ==
    /\ ~hidden["titleScreen"]
    /\ hidden' = [hidden EXCEPT !["titleScreen"] = TRUE, !["howToPlayScreen"] = FALSE]
    /\ lastOp' = Op("howto")
    /\ UNCHANGED <<gameState, player, hazards, particles, elapsedTime, fired, ticks,
                   contact, burstTicks>>

\* showTitleScreen(): click on backBtn of the how-to-play screen
showTitleScreen ==
    /\ ~hidden["howToPlayScreen"]
    /\ hidden' = [s \in Screens |-> s # "titleScreen"]
    /\ gameState' = "title"
    /\ lastOp' = Op("title")
    /\ UNCHANGED <<player, hazards, particles, elapsedTime, fired, ticks, contact, burstTicks>>

\* variant of keyRestart without the test on gameState
keyRestartAlways ==
    /\ resetGame
    /\ lastOp' = Op("restart")
    /\ UNCHANGED <<gameState, hidden>>

\* keydown handler, 'r' / 'R'
keyRestart ==
    /\ IF gameState = "playing"
       THEN /\ resetGame
            /\ lastOp' = Op("restart")
       ELSE /\ lastOp' = Op("ignored")
            /\ UNCHANGED <<player, hazards, particles, elapsedTime, fired, ticks,
                           contact, burstTicks>>
    /\ UNCHANGED <<gameState, hidden>>

\* variant of movePlayer without the early return outside playing
movePlayerUnguarded(dx, dy) ==
    LET newX == player.x + dx * PlayerSpeed
        newY == player.y + dy * PlayerSpeed
        moved == applyMove(player, newX, newY)
        exhausted == moved.energy <= 0
        reached == checkGoalReached(moved)
    IN  IF checkWallCollision(newX, newY)
        THEN /\ lastOp' = Op("blocked")
             /\ UNCHANGED <<gameState, player, hazards, particles, elapsedTime,
                            hidden, fired, ticks, contact, burstTicks>>
        ELSE /\ player' = moved
             /\ gameState' = moveOutcome(moved)
             /\ hidden' = [hidden EXCEPT
                              !["loseScreen"] = IF exhausted THEN FALSE ELSE @,
                              !["winScreen"] = IF reached THEN FALSE ELSE @]
             /\ fired' = [win  |-> fired.win + (IF reached THEN 1 ELSE 0),
                          lose |-> fired.lose + (IF exhausted THEN 1 ELSE 0),
                          hit  |-> fired.hit]
             /\ particles' = IF reached THEN createConfetti(particles) ELSE particles
             /\ contact' = noContact
             /\ lastOp' = Op("moved")
             /\ UNCHANGED <<hazards, elapsedTime, ticks, burstTicks>>

\* movePlayer(dx, dy), called by the keydown handler for a move key
movePlayer(dx, dy) ==
    LET newX == player.x + dx * PlayerSpeed
        newY == player.y + dy * PlayerSpeed
        moved == applyMove(player, newX, newY)
        exhausted == moved.energy <= 0
        reached == checkGoalReached(moved)
    IN  IF gameState # "playing"
        THEN /\ lastOp' = Op("ignored")
             /\ UNCHANGED <<gameState, player, hazards, particles, elapsedTime,
                            hidden, fired, ticks, contact, burstTicks>>
        ELSE IF checkWallCollision(newX, newY)
        THEN /\ lastOp' = Op("blocked")
             /\ UNCHANGED <<gameState, player, hazards, particles, elapsedTime,
                            hidden, fired, ticks, contact, burstTicks>>
        ELSE /\ player' = moved
             /\ gameState' = moveOutcome(moved)
             /\ hidden' = [hidden EXCEPT
                              !["loseScreen"] = IF exhausted THEN FALSE ELSE @,
                              !["winScreen"] = IF reached THEN FALSE ELSE @]
             /\ fired' = [win  |-> fired.win + (IF reached THEN 1 ELSE 0),
                          lose |-> fired.lose + (IF exhausted THEN 1 ELSE 0),
                          hit  |-> fired.hit]
             /\ particles' = IF reached THEN createConfetti(particles) ELSE particles
             /\ contact' = noContact
             /\ lastOp' = Op("moved")
             /\ UNCHANGED <<hazards, elapsedTime, ticks, burstTicks>>

\* gameLoop(): the update half of one animation frame
gameLoop ==
    /\ lastOp' = Op("tick")
    /\ IF gameState = "playing"
       THEN LET hz == updateHazards(hazards)
                hit == checkHazardCollision(player, hz)
                e == IF hit THEN hitEnergy(player.energy) ELSE player.energy
                dead == hit /\ e <= 0
            IN  /\ hazards' = hz
                /\ elapsedTime' \in {t \in {elapsedTime, elapsedTime + 1} : t <= MaxElapsed}
                /\ particles' = updateParticles(particles)
                /\ player' = [player EXCEPT !.energy = e]
                /\ gameState' = IF dead THEN "lost" ELSE gameState
                /\ hidden' = IF dead THEN [hidden EXCEPT !["loseScreen"] = FALSE] ELSE hidden
                /\ fired' = [win  |-> fired.win,
                             lose |-> fired.lose + (IF dead THEN 1 ELSE 0),
                             hit  |-> fired.hit + (IF hit THEN 1 ELSE 0)]
                /\ ticks' = ticks + 1
                /\ contact' = IF TouchesAnyHazard(player.x, player.y, hz)
                              THEN [k |-> contact.k + 1,
                                    base |-> IF contact.k = 0 THEN player.energy
                                             ELSE contact.base]
                              ELSE noContact
                /\ UNCHANGED burstTicks
       ELSE IF gameState = "won"
       THEN /\ particles' = updateParticles(particles)
            /\ burstTicks' = IF particles # << >> THEN burstTicks + 1 ELSE burstTicks
            /\ UNCHANGED <<gameState, player, hazards, elapsedTime, hidden, fired, ticks,
                           contact>>
       ELSE UNCHANGED <<gameState, player, hazards, particles, elapsedTime, hidden, fired,
                        ticks, contact, burstTicks>>

----------------------------------------------------------------------------
(* Events *)

StartGame == startGame

ShowHowToPlay == showHowToPlayScreen

ShowTitle == showTitleScreen

KeyRestart == keyRestart

KeyMove == \E d \in Dirs : movePlayer(d[1], d[2])

Tick == (gameState = "playing" => ticks < MaxTicks) /\ gameLoop

Next == StartGame \/ ShowHowToPlay \/ ShowTitle \/ KeyRestart \/ KeyMove \/ Tick

Spec == Init /\ [][Next]_vars

\* the same events, exploring many frames and few moves per round
KeyMoveHazard == player.steps < MaxStepsHazard /\ KeyMove

TickHazard == (gameState = "playing" => ticks < MaxTicksHazard) /\ gameLoop

NextHazard == StartGame \/ ShowHowToPlay \/ ShowTitle \/ KeyRestart \/ KeyMoveHazard \/ TickHazard

SpecHazard == Init /\ [][NextHazard]_vars

----------------------------------------------------------------------------
(* Properties *)

Max0(n) == IF n < 0 THEN 0 ELSE n

\* the candidate box of a move in direction d overlaps some wall
CandidateHitsWall(d) ==
    \E i \in 1..Len(walls) :
        Intersects(player.x + d[1] * PlayerSpeed, player.y + d[2] * PlayerSpeed,
                   PlayerSize, PlayerSize,
                   walls[i].x, walls[i].y, walls[i].width, walls[i].height)

\* a frame of the game loop run while playing
PlayingFrame == gameState = "playing" /\ gameLoop

\* a frame of the game loop run while won
WonFrame == gameState = "won" /\ gameLoop

\* C1: while playing, a move whose candidate box overlaps a wall changes
\* nothing: position, energy, steps, game state, hazards, particles, screens
\* and the win/lose triggers all stay as they were.
BlockedMoveChangesNothing ==
    [][\A d \in Dirs :
          (gameState = "playing" /\ CandidateHitsWall(d) /\ movePlayer(d[1], d[2]))
          => UNCHANGED <<gameState, player, hazards, particles, elapsedTime, hidden, fired>>]_vars

\* a move has just been rejected somewhere other than the spawn point
BlockedMoveSeen ==
    /\ lastOp = [op |-> "blocked", from |-> "playing"]
    /\ gameState = "playing"
    /\ player.steps > 0
    /\ \E d \in Dirs : CandidateHitsWall(d)

\* C2: while playing, a move whose candidate box overlaps no wall sets the
\* position to (x + 40*dx, y + 40*dy), adds 1 to steps and takes 1 from
\* energy, the move onto the goal included.
FreeMoveEffect ==
    [][\A d \in Dirs :
          (gameState = "playing" /\ ~CandidateHitsWall(d) /\ movePlayer(d[1], d[2]))
          => player' = [x |-> player.x + PlayerSpeed * d[1],
                        y |-> player.y + PlayerSpeed * d[2],
                        energy |-> player.energy - 1,
                        steps |-> player.steps + 1]]_vars

\* the move onto the goal has just been made
GoalMoveSeen ==
    /\ lastOp = [op |-> "moved", from |-> "playing"]
    /\ gameState = "won"
    /\ player.steps > 0
    /\ player.energy < InitEnergy

\* C3: energy is never negative in the state an operation leaves, and a frame
\* whose hazard penalty would bring energy to 0 or below leaves energy = 0
\* and gameState = lost.
EnergyNeverNegative ==
    /\ [](player.energy >= 0)
    /\ [][(PlayingFrame /\ TouchesAnyHazard(player.x, player.y, hazards')
                        /\ player.energy - HazardPenalty <= 0)
          => (player'.energy = 0 /\ gameState' = "lost")]_vars

\* a frame's penalty has just taken the energy strictly below 0 before the clamp
ClampSeen ==
    /\ lastOp = [op |-> "tick", from |-> "playing"]
    /\ gameState = "lost"
    /\ player.energy = 0
    /\ contact.k > 0
    /\ contact.base - HazardPenalty * contact.k < 0

\* while playing, energy and steps have the same parity (100 is even, a move
\* changes both by one, a penalty is 10), and the only grid position passing
\* the goal test is an odd number of moves from the spawn point: the move
\* onto the goal never spends the last unit of energy
EnergyParity ==
    /\ gameState = "playing" => (player.energy + player.steps) % 2 = 0
    /\ gameState = "won" => player.energy % 2 = 1

\* C4: with energy 1, a successful move leaves energy 0 and gameState = lost
\* (no such move ends on the goal), and energy 0 always means a lost round.
LastEnergyMoveLoses ==
    /\ [](player.energy = 0 => gameState = "lost")
    /\ [][\A d \in Dirs :
             (gameState = "playing" /\ player.energy = 1 /\ ~CandidateHitsWall(d)
                 /\ movePlayer(d[1], d[2]))
             => (player'.energy = 0 /\ gameState' = "lost")]_vars

\* the last unit of energy has just been spent on a move away from the goal
LastEnergyMoveSeen ==
    /\ lastOp = [op |-> "moved", from |-> "playing"]
    /\ player.energy = 0
    /\ player.steps > 0
    /\ gameState = "lost"

\* C5: hazard contact is level-triggered.  After K consecutive playing frames
\* in each of which the player overlaps a hazard at its moved position, with
\* no move in between, energy = max(0, energy before - 10*K), and the state
\* is lost exactly from the first frame at which the running value is <= 0.
ContactIsLevelTriggered ==
    contact.k > 0 =>
        /\ player.energy = Max0(contact.base - HazardPenalty * contact.k)
        /\ (gameState = "lost") <=> (contact.base - HazardPenalty * contact.k <= 0)
        /\ contact.base - HazardPenalty * (contact.k - 1) > 0

\* two contact frames in a row, the second of which ends the round
TwoContactFramesSeen ==
    /\ contact.k = 2
    /\ gameState = "lost"
    /\ lastOp.op = "tick"
    /\ contact.base > HazardPenalty

\* hazard i of hazard list hz is beyond a bounce margin
OutsideMargins(hz, i) ==
    \/ hz[i].x2 < 2 * LeftMargin
    \/ hz[i].x2 + hazardDefs[i].width2 > 2 * RightMargin

\* C6: every hazard stays within the margins plus one frame of travel
\* (30 - speedX <= x and x + width <= 770 + speedX), and is never beyond a
\* margin in two consecutive frames.
HazardsStayBounded ==
    /\ [](\A i \in HazardIds :
            /\ 2 * LeftMargin - hazardDefs[i].speedX2 <= hazards[i].x2
            /\ hazards[i].x2 + hazardDefs[i].width2 <= 2 * RightMargin + hazardDefs[i].speedX2)
    /\ [][PlayingFrame =>
            \A i \in HazardIds : OutsideMargins(hazards, i) => ~OutsideMargins(hazards', i)]_vars

\* hazard 2 is beyond the left margin for the second time, one full period
\* after the first, in the state it had then
HazardPeriodSeen ==
    /\ ticks = 1011
    /\ hazards[2] = [x2 |-> 57, direction |-> 1]
    /\ OutsideMargins(hazards, 2)

\* C7: startGame (from title, won or lost) and the R key while playing leave
\* energy 100, steps 0, the player at (50,550), the hazards at x = 100, 300,
\* 500 with directions +1, -1, +1, no particles and elapsed time 0; after
\* startGame the state is playing.
RestartResetsRound ==
    [][(startGame \/ (gameState = "playing" /\ keyRestart)) =>
          /\ player' = [x |-> 50, y |-> 550, energy |-> 100, steps |-> 0]
          /\ hazards' = << [x2 |-> 200, direction |-> 1],
                           [x2 |-> 600, direction |-> -1],
                           [x2 |-> 1000, direction |-> 1] >>
          /\ particles' = << >>
          /\ elapsedTime' = 0
          /\ (startGame => gameState' = "playing")]_vars

\* a round has just been started from the win screen
RestartFromWonSeen ==
    /\ lastOp = [op |-> "start", from |-> "won"]
    /\ gameState = "playing"

\* C8: a burst of exactly 50 particles is emitted once per win: entering won
\* adds 50 particles to an empty list, nothing else adds particles, the
\* count never exceeds 50 and is 0 in title, playing and lost.
BurstOncePerWin ==
    /\ [](/\ Len(particles) <= 50
          /\ gameState # "won" => Len(particles) = 0
          /\ fired.win <= 1)
    /\ [][/\ (gameState # "won" /\ gameState' = "won")
             => (Len(particles) = 0 /\ Len(particles') = 50 /\ fired'.win = fired.win + 1)
          /\ Len(particles') > Len(particles)
             => (gameState = "playing" /\ gameState' = "won" /\ lastOp'.op = "moved")]_vars

\* the burst has just been emitted
BurstSeen ==
    /\ gameState = "won"
    /\ lastOp = [op |-> "moved", from |-> "playing"]
    /\ Len(particles) = 50
    /\ fired.win = 1

\* C9 as stated: every won frame that starts with particles ends with fewer.
ParticleCountStrictlyDecreases ==
    [][(WonFrame /\ particles # << >>) => Len(particles') < Len(particles)]_vars

\* C9 amended: in every won frame that starts with particles the count does
\* not grow and the life of every remaining particle strictly decreases (the
\* particles of a burst share one life, so the count stays at 50 until the
\* frame that removes them all).
ParticleLifeStrictlyDecreases ==
    [][(WonFrame /\ particles # << >>) =>
          /\ Len(particles') <= Len(particles)
          /\ Len(particles') \in {0, Len(particles)}
          /\ \A i \in 1..Len(particles') : particles'[i] < particles[i]]_vars

\* a won frame has aged the burst without removing anything
AgedBurstSeen ==
    /\ gameState = "won"
    /\ lastOp = [op |-> "tick", from |-> "won"]
    /\ Len(particles) = 50
    /\ particles[1] < ParticleLife

\* C10: with life in decay units, the particle list is empty after at most
\* 50 won frames and stays empty until the next win, and no particle is left
\* with life <= 0 at the end of a frame.
BurstEndsWithinFiftyFrames ==
    /\ [](/\ \A i \in 1..Len(particles) : particles[i] > 0
          /\ burstTicks <= 50
          /\ particles # << >> => burstTicks < 50)
    /\ [][(particles = << >> /\ particles' # << >>)
          => (gameState = "playing" /\ gameState' = "won")]_vars

\* the 50th won frame has just emptied the particle list
BurstOverSeen ==
    /\ gameState = "won"
    /\ lastOp = [op |-> "tick", from |-> "won"]
    /\ burstTicks = 50
    /\ particles = << >>

\* a move key or the restart key handled in the current state
KeyEvent == keyRestart \/ \E d \in Dirs : movePlayer(d[1], d[2])

\* C11: the simulation is frozen outside playing.  While won, frames and
\* move/restart keys leave player position, energy, steps and the hazards
\* unchanged (particles may change); while lost they leave the particles
\* unchanged as well.
FrozenOutsidePlaying ==
    [][/\ (gameState = "won" /\ (gameLoop \/ KeyEvent))
          => UNCHANGED <<player, hazards>>
       /\ (gameState = "lost" /\ (gameLoop \/ KeyEvent))
          => UNCHANGED <<player, hazards, particles>>]_vars

\* a key has just been ignored in a round lost after some moves
IgnoredWhileLostSeen ==
    /\ gameState = "lost"
    /\ lastOp = [op |-> "ignored", from |-> "lost"]
    /\ player.steps > 0

\* C12: gameState starts as title and changes only by title -> playing
\* (start), playing -> won (a move), playing -> lost (a move or a frame),
\* won -> playing and lost -> playing (start); no frame or key changes it
\* once it is won or lost.
StateMachineTransitions ==
    /\ gameState = "title"
    /\ [][gameState' # gameState =>
            \/ gameState = "title" /\ gameState' = "playing" /\ startGame
            \/ gameState = "playing" /\ gameState' = "won"
                  /\ \E d \in Dirs : movePlayer(d[1], d[2])
            \/ gameState = "playing" /\ gameState' = "lost"
                  /\ (gameLoop \/ \E d \in Dirs : movePlayer(d[1], d[2]))
            \/ gameState \in {"won", "lost"} /\ gameState' = "playing" /\ startGame]_vars

\* a round has just been started from the lose screen
RestartFromLostSeen ==
    /\ lastOp = [op |-> "start", from |-> "lost"]
    /\ gameState = "playing"

\* on the spawn row after nothing but moves to the right since the reset
\* (k steps and x = 50 + 40k leave room for no other move)
RightMovesOnly ==
    /\ gameState # "title"
    /\ player.y = 550
    /\ player.steps <= 5
    /\ player.x = 50 + 40 * player.steps

\* C13: from a fresh start, five moves to the right, with any frames in
\* between, leave the player at (250,550) with steps 5, energy 95 and
\* gameState playing: none of the moves is blocked and no frame costs energy.
FiveMovesRight ==
    /\ [](RightMovesOnly => (gameState = "playing" /\ player.energy = 100 - player.steps))
    /\ [][(RightMovesOnly /\ player.steps < 5 /\ movePlayer(1, 0))
          => (RightMovesOnly' /\ player'.steps = player.steps + 1)]_vars

\* the fifth move to the right has been made, with frames run before it
FiveMovesRightSeen ==
    /\ gameState = "playing"
    /\ player = [x |-> 250, y |-> 550, energy |-> 95, steps |-> 5]
    /\ ticks > 0
    /\ lastOp.op = "moved"

\* goal-proximity test on a position: squared distance between the player
\* centre (px + 15, py + 15) and the goal centre (770, 70) below 35^2
NearGoal(px, py) ==
    (px + 15 - 770) * (px + 15 - 770) + (py + 15 - 70) * (py + 15 - 70) < 35 * 35

\* C14: in every reachable state gameState = won exactly when the player
\* passes the goal-proximity test (so never within reach of the goal while
\* playing or lost), and won is entered only by a successful move, never by
\* a frame.
WonIffNearGoal ==
    /\ []((gameState = "won") <=> NearGoal(player.x, player.y))
    /\ [][(gameState # "won" /\ gameState' = "won")
          => (player'.steps = player.steps + 1 /\ \E d \in Dirs : movePlayer(d[1], d[2]))]_vars

\* the player stands on the goal cell of the grid and the round is won
OnGoalCellSeen ==
    /\ gameState = "won"
    /\ player.x = 730
    /\ player.y = 70
    /\ NearGoal(player.x, player.y)

\* C15: hazards never block a move and only frames apply the penalty.  A
\* move whose candidate box overlaps a hazard but no wall succeeds and costs
\* 1 energy; a move never costs more than 1; a playing frame takes
\* min(10, energy) exactly when the player overlaps a hazard at the hazard's
\* position after the frame's motion, and nothing otherwise.
HazardsPenalizeOnlyInFrames ==
    [][/\ \A d \in Dirs :
            (gameState = "playing" /\ ~CandidateHitsWall(d) /\ movePlayer(d[1], d[2]))
            => /\ player'.x = player.x + d[1] * PlayerSpeed
               /\ player'.y = player.y + d[2] * PlayerSpeed
               /\ player'.energy = player.energy - 1
       /\ PlayingFrame
            => player'.energy = IF TouchesAnyHazard(player.x, player.y, hazards')
                                THEN Max0(player.energy - 10) ELSE player.energy
       /\ player'.energy < player.energy - 1
            => (PlayingFrame /\ TouchesAnyHazard(player.x, player.y, hazards'))]_vars

\* the player has just stepped into a hazard box, after some frames, and has
\* paid for moves only
SteppedIntoHazardSeen ==
    /\ gameState = "playing"
    /\ lastOp.op = "moved"
    /\ TouchesAnyHazard(player.x, player.y, hazards)
    /\ ticks > 0
    /\ fired.hit = 0
    /\ player.energy = 100 - player.steps

\* C16: the player box never overlaps a wall, and the position stays on the
\* 40-unit grid anchored at the spawn point, inside the playfield.
PlayerOnGridClearOfWalls ==
    /\ \A i \in 1..Len(walls) :
          ~Intersects(player.x, player.y, 30, 30,
                      walls[i].x, walls[i].y, walls[i].width, walls[i].height)
    /\ (player.x - 50) % 40 = 0
    /\ (player.y - 550) % 40 = 0
    /\ 20 <= player.x /\ player.x + 30 <= 780
    /\ 20 <= player.y /\ player.y + 30 <= 580

\* the player stands against the left face of the wall at x = 400, edges
\* touching
AgainstInnerWallSeen ==
    /\ gameState = "playing"
    /\ player.x + 30 = 400
    /\ player.y >= 200
    /\ player.steps > 0

\* C17: energy + steps <= 100, with equality exactly when no hazard penalty
\* has been applied since the last reset; steps never exceeds 100 and a
\* round that is still playing has made fewer than 100 moves.
EnergyPlusStepsBounded ==
    /\ player.energy + player.steps <= 100
    /\ (player.energy + player.steps = 100) <=> (fired.hit = 0)
    /\ player.steps <= 100
    /\ player.steps = 100 => gameState \in {"won", "lost"}

\* a penalty has been applied and the round goes on
PenaltyAppliedSeen ==
    /\ gameState = "playing"
    /\ fired.hit > 0
    /\ player.steps > 0
    /\ player.energy + player.steps < 100

\* C18: playing implies energy >= 1 and lost implies energy = 0, whether the
\* energy went on a move or on a hazard frame.
PlayingHasEnergy ==
    /\ gameState = "playing" => player.energy >= 1
    /\ gameState = "lost" => player.energy = 0

\* a frame's penalty has just taken exactly the last 10 units of energy
ExactPenaltyLossSeen ==
    /\ gameState = "lost"
    /\ lastOp = [op |-> "tick", from |-> "playing"]
    /\ player.energy = 0
    /\ contact.base - HazardPenalty * contact.k = 0

\* C20: in a round at most one of the lose trigger and the win trigger
\* fires, at most once, and no single step fires both.
OneOutcomePerRound ==
    /\ [](fired.win + fired.lose <= 1)
    /\ [][~(fired'.win > fired.win /\ fired'.lose > fired.lose)]_vars

\* the goal has been reached on the last unit of energy but one: the win
\* trigger has fired and the lose trigger has not
NarrowWinSeen ==
    /\ gameState = "won"
    /\ player.energy = 1
    /\ fired.win = 1
    /\ fired.lose = 0
    /\ ~hidden["winScreen"]
    /\ hidden["loseScreen"]

----------------------------------------------------------------------------
(* One way through the maze: a player who starts the game and then follows *)
(* a fixed route, with frames running in between.  Every step is a step of *)
(* Spec.                                                                   *)

\* the route: along the spawn row to x = 370, up to y = 150 (above the wall
\* at x = 400), right to x = 570, down to y = 430 (below the wall at
\* x = 600), right to x = 730 and up to the goal
Route(px, py) ==
    IF py = 550 /\ px < 370 THEN <<1, 0>>
    ELSE IF px = 370 /\ py > 150 THEN <<0, -1>>
    ELSE IF py = 150 /\ px < 570 THEN <<1, 0>>
    ELSE IF px = 570 /\ py < 430 THEN <<0, 1>>
    ELSE IF py = 430 /\ px < 730 THEN <<1, 0>>
    ELSE <<0, -1>>

RouteStart == gameState = "title" /\ startGame

RouteMove ==
    /\ gameState = "playing"
    /\ movePlayer(Route(player.x, player.y)[1], Route(player.x, player.y)[2])

RouteTick == gameState # "title" /\ Tick

NextRoute == RouteStart \/ RouteMove \/ RouteTick

SpecRoute == Init /\ [][NextRoute]_vars /\ WF_vars(RouteStart) /\ WF_vars(RouteMove)

\* C19: the game is winnable.  From a fresh start the route above, with
\* frames interleaved and the hazards moving, reaches gameState = won with
\* energy > 0 within the 100-energy budget; every step of the route is an
\* event of the game.
RouteWins ==
    /\ <>(gameState = "won" /\ player.energy > 0)
    /\ [][Next]_vars

\* the route has been walked to the goal, with frames and a hazard hit on
\* the way
RouteWonSeen ==
    /\ gameState = "won"
    /\ player.energy > 0
    /\ player.steps = 43
    /\ ticks > 0
    /\ fired.hit > 0

====
